---- MODULE Spec2Model ----
(***************************************************************************)
(* POL token bridge (src/bridge.js): one run of the command line program.  *)
(* The state is the position of the single thread of control (pc), the     *)
(* locals of the running command, the calls made to the two chains and to  *)
(* the proof service, and what was written to the console.  The chains and *)
(* the proof service are the environment: every call to them draws its     *)
(* outcome from the outcomes such a call can have.                         *)
(***************************************************************************)
EXTENDS Integers, Sequences, FiniteSets, TLC

VARIABLES
  cfg,            \* which of the required environment variables are set
  mode,           \* process.argv[2]
  arg,            \* process.argv[3]
  autoComplete,   \* process.env.AUTO_COMPLETE === 'true'
  pc,             \* position of the thread of control
  code,           \* withdrawPOL: result of getCode(POL_AMOY)
  bal,            \* withdrawPOL: queried balance, in smallest units
  amountWei,      \* bridgePOL: parsed amount, in smallest units
  withdrawAmount, \* withdrawPOL: parsed amount, in smallest units
  burnCall,       \* withdrawPOL: argument and value of the withdraw call
  burnTx,         \* withdrawPOL: hash of the burn transaction
  txHash,         \* waitForCheckpoint: identifier being polled
  attempts,       \* waitForCheckpoint: attempts made so far
  response,       \* the proof service's answer to the last request
  got200,         \* history: some request of this run was answered 200
  proofData,      \* value returned by waitForCheckpoint
  error,          \* the exception being thrown or handled
  calls,          \* number of calls made, per external operation
  confirmed,      \* number of confirmed transactions, per operation
  requested,      \* URLs requested from the proof service
  startExitArg,   \* payload passed to startExitWithBurntTokens
  startExitError, \* processExit: the exception the start-exit step caught
  processExitsArg, \* token address passed to processExits
  out,            \* console: tags of the messages written
  shown,          \* console: handles (hashes, proofs) written
  exitCode        \* process outcome: "running", 0 or 1

vars == <<cfg, mode, arg, autoComplete, pc, code, bal, amountWei, withdrawAmount,
          burnCall, burnTx, txHash, attempts, response, got200, proofData, error,
          calls, confirmed, requested, startExitArg, startExitError, processExitsArg,
          out, shown, exitCode>>

None == "none"

----------------------------------------------------------------------------
(* Bounds and program constants *)

\* number of decimals of the fixed-point amounts (ethers.parseEther scales by
\* 10^18; the model keeps the scaling with fewer decimals)
EtherDecimals == 2

maxAttempts == 360

RECURSIVE Pow10(_)
Pow10(n) == IF n = 0 THEN 1 ELSE 10 * Pow10(n - 1)

Unit == Pow10(EtherDecimals)

----------------------------------------------------------------------------
(* Command line: strings are sequences of characters *)

Digits == <<"0", "1", "2", "3", "4", "5", "6", "7", "8", "9">>

IsDigit(c) == \E i \in 1..10 : Digits[i] = c

DigitVal(c) == (CHOOSE i \in 1..10 : Digits[i] = c) - 1

Undefined == [given |-> FALSE, text |-> <<>>]

Str(s) == [given |-> TRUE, text |-> s]

HashA == <<"0", "x", "a">>
HashB == <<"0", "x", "b">>

TxHashes == {HashA, HashB}

ArgStrings ==
  { <<>>, <<"0">>, <<"1">>, <<"0", ".", "5">>, <<"-", "1">>,
    <<"1", ".", "2", "3", "4">>, HashA, HashB }

Args == {Undefined} \cup { Str(s) : s \in ArgStrings }

Modes == {"deposit", "withdraw", "check", "exit", "finalize", "help"}

\* JavaScript truthiness of a string-or-undefined
\* an argument counting as present as soon as it is defined
Truthy_DefinedOnly(a) == a.given

Truthy(a) == a.given /\ a.text # <<>>

----------------------------------------------------------------------------
(* ethers.parseEther: decimal string to an integer of smallest units *)

RECURSIVE NumVal(_)
NumVal(ds) ==
  IF ds = <<>> THEN 0
  ELSE 10 * NumVal(SubSeq(ds, 1, Len(ds) - 1)) + DigitVal(ds[Len(ds)])

AllDigits(ds) == \A i \in 1..Len(ds) : IsDigit(ds[i])

Negative(s) == Len(s) > 0 /\ s[1] = "-"

Unsigned(s) == IF Negative(s) THEN Tail(s) ELSE s

DotAt(s) ==
  IF \E i \in 1..Len(s) : s[i] = "."
  THEN CHOOSE i \in 1..Len(s) : s[i] = "." /\ \A j \in 1..(i - 1) : s[j] # "."
  ELSE Len(s) + 1

Whole(s) == SubSeq(Unsigned(s), 1, DotAt(Unsigned(s)) - 1)

Fraction(s) == SubSeq(Unsigned(s), DotAt(Unsigned(s)) + 1, Len(Unsigned(s)))

\* the fraction cut or zero-padded to exactly EtherDecimals digits
Padded(f) ==
  [i \in 1..EtherDecimals |-> IF i <= Len(f) THEN f[i] ELSE "0"]

\* strings parseEther accepts: -?digits*.?digits* with at least one digit and
\* no non-zero digit beyond the last decimal
Parses(s) ==
  /\ AllDigits(Whole(s))
  /\ AllDigits(Fraction(s))
  /\ Len(Whole(s)) + Len(Fraction(s)) > 0
  /\ \A i \in 1..Len(Fraction(s)) : i > EtherDecimals => Fraction(s)[i] = "0"

parseEther(s) ==
  (IF Negative(s) THEN -1 ELSE 1)
    * (NumVal(Whole(s)) * Unit + NumVal(Padded(Fraction(s))))

\* const amount = amountArg || '1'
AmountText(a) == IF Truthy(a) THEN a.text ELSE <<"1">>

----------------------------------------------------------------------------
(* The environment: chains and proof service *)

\* balances the token contract can report
Balances == {0, Unit}

\* messages of the errors a contract call can fail with
KnownExitMsg == <<"execution", "reverted", "KNOWN_EXIT">>
RevertMsg == <<"execution", "reverted">>

FailureMsgs == {KnownExitMsg, RevertMsg}

\* the marker never recognised
IncludesKnownExit_Never(msg) == FALSE

\* every revert taken for a known exit
IncludesKnownExit_AnyRevert(msg) == \E i \in 1..Len(msg) : msg[i] = "reverted"

\* error.message.includes('KNOWN_EXIT')
IncludesKnownExit(msg) == \E i \in 1..Len(msg) : msg[i] = "KNOWN_EXIT"

\* outcome of submitting a transaction and waiting for it
TxOutcomes == {[ok |-> TRUE, msg |-> <<>>]} \cup { [ok |-> FALSE, msg |-> m] : m \in FailureMsgs }

Proofs == { <<"0", "x", "p", "1">>, <<"0", "x", "p", "2">> }

\* a body the loop's try block fails on: response.json() cannot read it, or it
\* reads as null, so that data.result throws
NoData == [json |-> FALSE, result |-> Undefined]

\* bodies: a JSON object with a result, a JSON object without one, and a
\* body response.json() cannot read
Bodies == { [json |-> TRUE, result |-> r] : r \in { Str(p) : p \in Proofs } \cup {Undefined} }
            \cup {NoData}

Statuses == {200, 201, 400, 404, 500}

NetworkError == [kind |-> "neterr", status |-> 0, body |-> NoData]

\* every status below 500 taken for a success
Ok_Below500(r) == r.kind = "http" /\ r.status < 500

\* response.ok: a status in the range 200-299
Ok(r) == r.kind = "http" /\ r.status >= 200 /\ r.status <= 299

\* what fetch can produce: a failure, or a status with a body; an error status
\* comes without a proof
Responses ==
  { r \in [kind : {"http"}, status : Statuses, body : Bodies] :
      r.status \in 200..299 \/ ~r.body.result.given }
    \cup {NetworkError}

NoResponse == [kind |-> None, status |-> 0, body |-> NoData]

NoError == [kind |-> None, msg |-> <<>>]

ChainError(m) == [kind |-> "chain", msg |-> m]

TimeoutError == [kind |-> "timeout", msg |-> <<"Checkpoint", "timeout">>]

ParseError == [kind |-> "parse", msg |-> <<"invalid", "value">>]

EncodeError == [kind |-> "encode", msg |-> <<"invalid", "value">>]

RpcError == [kind |-> "rpc", msg |-> <<"could", "not", "detect", "network">>]

Ops == {"approve", "deposit", "burn", "startExit", "processExits", "fetch", "getCode", "balanceOf"}

Count(f, op) == [f EXCEPT ![op] = @ + 1]

\* a uint256 argument cannot encode a negative number
Encodable(v) == v >= 0

NoCall == [made |-> FALSE, arg |-> 0, value |-> 0]

----------------------------------------------------------------------------
(* Variable groups *)

inputs == <<cfg, mode, arg, autoComplete>>
wdLocals == <<code, bal, withdrawAmount, burnCall, burnTx>>
pollLocals == <<txHash, attempts, response, got200, proofData>>
external == <<calls, confirmed, requested, startExitArg, startExitError, processExitsArg>>
console == <<out, shown>>

Init ==
  /\ cfg \in {"ok", "noPrivateKey", "noPolAmoy"}
  /\ mode \in Modes
  /\ arg \in Args
  /\ autoComplete \in (IF mode = "withdraw" THEN BOOLEAN ELSE {FALSE})
  /\ pc = "start"
  /\ code = None
  /\ bal = 0
  /\ amountWei = 0
  /\ withdrawAmount = 0
  /\ burnCall = NoCall
  /\ burnTx = Undefined
  /\ txHash = Undefined
  /\ attempts = 0
  /\ response = NoResponse
  /\ got200 = FALSE
  /\ proofData = NoData
  /\ error = NoError
  /\ calls = [op \in Ops |-> 0]
  /\ confirmed = [op \in Ops |-> 0]
  /\ requested = {}
  /\ startExitArg = Undefined
  /\ startExitError = NoError
  /\ processExitsArg = None
  /\ out = {}
  /\ shown = {}
  /\ exitCode = "running"

----------------------------------------------------------------------------
(* Start of the process and command routing *)

\* the checks of PRIVATE_KEY and POL_AMOY made while the module loads
\* a missing setting only being reported, the command still running
Startup_WarnOnly ==
  /\ pc = "start"
  /\ pc' = "main"
  /\ out' = IF cfg = "ok" THEN out ELSE out \cup {"config error"}
  /\ UNCHANGED <<inputs, wdLocals, pollLocals, external, amountWei, error, shown,
                 exitCode>>

Startup ==
  /\ pc = "start"
  /\ IF cfg = "ok"
     THEN /\ pc' = "main"
          /\ UNCHANGED <<out, exitCode>>
     ELSE /\ out' = out \cup {"config error"}
          /\ exitCode' = "1"
          /\ pc' = "exited"
  /\ UNCHANGED <<inputs, wdLocals, pollLocals, external, amountWei, error, shown>>

\* first position of the command main() routes to
Route(m) ==
  CASE m = "deposit" -> "bridgePOL"
    [] m = "withdraw" -> "withdrawPOL"
    [] m = "check" -> "checkStatus"
    [] m = "exit" -> "completeExit"
    [] m = "finalize" -> "finalizeExit"
    [] OTHER -> "usage"

main ==
  /\ pc = "main"
  /\ IF Route(mode) = "usage"
     THEN /\ out' = out \cup {"usage"}
          /\ pc' = "exited"
          /\ exitCode' = "0"
     ELSE /\ pc' = Route(mode)
          /\ UNCHANGED <<out, exitCode>>
  /\ UNCHANGED <<inputs, wdLocals, pollLocals, external, amountWei, error, shown>>

\* main().catch: the error is printed and the process exits with status 1
mainCatch ==
  /\ pc = "mainCatch"
  /\ out' = out \cup {"error"}
  /\ exitCode' = "1"
  /\ pc' = "exited"
  /\ UNCHANGED <<inputs, wdLocals, pollLocals, external, amountWei, error, shown>>

----------------------------------------------------------------------------
(* deposit: bridgePOL *)

bridgePOL_amount ==
  /\ pc = "bridgePOL"
  /\ IF Parses(AmountText(arg))
     THEN /\ amountWei' = parseEther(AmountText(arg))
          /\ out' = out \cup {"depositing"}
          /\ pc' = "approve"
          /\ UNCHANGED error
     ELSE /\ error' = ParseError
          /\ pc' = "mainCatch"
          /\ UNCHANGED <<amountWei, out>>
  /\ UNCHANGED <<inputs, wdLocals, pollLocals, external, shown, exitCode>>

\* the deposit going ahead although the approval failed
bridgePOL_approve_NotAwaited ==
  /\ pc = "approve"
  /\ IF Encodable(amountWei)
     THEN \E r \in TxOutcomes :
            /\ calls' = Count(calls, "approve")
            /\ confirmed' = IF r.ok THEN Count(confirmed, "approve") ELSE confirmed
            /\ out' = out \cup {"approval"}
            /\ pc' = "deposit"
            /\ UNCHANGED error
     ELSE /\ error' = EncodeError
          /\ pc' = "mainCatch"
          /\ UNCHANGED <<calls, confirmed, out>>
  /\ UNCHANGED <<inputs, wdLocals, pollLocals, requested, startExitArg, startExitError,
                 processExitsArg, amountWei, shown, exitCode>>

bridgePOL_approve ==
  /\ pc = "approve"
  /\ IF Encodable(amountWei)
     THEN \E r \in TxOutcomes :
            /\ calls' = Count(calls, "approve")
            /\ IF r.ok
               THEN /\ confirmed' = Count(confirmed, "approve")
                    /\ out' = out \cup {"approval"}
                    /\ pc' = "deposit"
                    /\ UNCHANGED error
               ELSE /\ error' = ChainError(r.msg)
                    /\ pc' = "mainCatch"
                    /\ UNCHANGED <<confirmed, out>>
     ELSE /\ error' = EncodeError
          /\ pc' = "mainCatch"
          /\ UNCHANGED <<calls, confirmed, out>>
  /\ UNCHANGED <<inputs, wdLocals, pollLocals, requested, startExitArg, startExitError, processExitsArg, amountWei,
                 shown, exitCode>>

bridgePOL_deposit ==
  /\ pc = "deposit"
  /\ \E r \in TxOutcomes :
       /\ calls' = Count(calls, "deposit")
       /\ IF r.ok
          THEN /\ confirmed' = Count(confirmed, "deposit")
               /\ out' = out \cup {"deposit confirmed"}
               /\ pc' = "exited"
               /\ exitCode' = "0"
               /\ UNCHANGED error
          ELSE /\ error' = ChainError(r.msg)
               /\ pc' = "mainCatch"
               /\ UNCHANGED <<confirmed, out, exitCode>>
  /\ UNCHANGED <<inputs, wdLocals, pollLocals, requested, startExitArg, startExitError, processExitsArg, amountWei, shown>>

----------------------------------------------------------------------------
(* withdraw: withdrawPOL *)

\* the sanity check of the token address left out
NoContract_Never(c) == FALSE

\* code === '0x': no contract at POL_AMOY
NoContract(c) == c = "0x"

\* Step 0: providerAmoy.getCode(POL_AMOY)
withdrawPOL_getCode ==
  /\ pc = "withdrawPOL"
  /\ calls' = Count(calls, "getCode")
  /\ \E c \in {"0x", "0x6080", "throws"} :
       CASE c = "throws" ->
              /\ error' = RpcError
              /\ pc' = "mainCatch"
              /\ UNCHANGED <<code, out, exitCode>>
         [] NoContract(c) ->
              /\ code' = c
              /\ out' = out \cup {"no contract"}
              /\ pc' = "exited"
              /\ exitCode' = "0"
              /\ UNCHANGED error
         [] OTHER ->
              /\ code' = c
              /\ pc' = "balanceOf"
              /\ UNCHANGED <<error, out, exitCode>>
  /\ UNCHANGED <<inputs, bal, withdrawAmount, burnCall, burnTx, pollLocals, confirmed,
                 requested, startExitArg, startExitError, processExitsArg, amountWei, shown>>

\* Step 1: balanceOf(walletAmoy.address)
withdrawPOL_balanceOf ==
  /\ pc = "balanceOf"
  /\ calls' = Count(calls, "balanceOf")
  /\ \/ /\ error' = RpcError
        /\ pc' = "mainCatch"
        /\ UNCHANGED <<bal, out>>
     \/ \E b \in Balances :
          /\ bal' = b
          /\ out' = out \cup {"balance"}
          /\ pc' = "amount"
          /\ UNCHANGED error
  /\ UNCHANGED <<inputs, code, withdrawAmount, burnCall, burnTx, pollLocals, confirmed,
                 requested, startExitArg, startExitError, processExitsArg, amountWei, shown, exitCode>>

\* the comparison with its operands swapped
Insufficient_Swapped(b, w) == w < b

\* Step 3: if (bal < withdrawAmount)
Insufficient(b, w) == b < w

\* Steps 2 and 3: parse the amount, compare it with the balance
withdrawPOL_amount ==
  /\ pc = "amount"
  /\ IF Parses(AmountText(arg))
     THEN /\ withdrawAmount' = parseEther(AmountText(arg))
          /\ IF Insufficient(bal, withdrawAmount')
             THEN /\ out' = out \cup {"withdrawing", "insufficient balance"}
                  /\ pc' = "exited"
                  /\ exitCode' = "0"
             ELSE /\ out' = out \cup {"withdrawing"}
                  /\ pc' = "burn"
                  /\ UNCHANGED exitCode
          /\ UNCHANGED error
     ELSE /\ error' = ParseError
          /\ pc' = "mainCatch"
          /\ UNCHANGED <<withdrawAmount, out, exitCode>>
  /\ UNCHANGED <<inputs, code, bal, burnCall, burnTx, pollLocals, external, amountWei, shown>>

\* the call without its value
BurnArgs_NoValue(w) == [made |-> TRUE, arg |-> w, value |-> 0]

\* polContract.withdraw(withdrawAmount, { value: withdrawAmount })
BurnArgs(w) == [made |-> TRUE, arg |-> w, value |-> w]

\* Step 4: the burn; a failure is reported and the command returns
\* the withdraw going on to the checkpoint although the burn failed
withdrawPOL_burn_ContinuesOnFailure ==
  /\ pc = "burn"
  /\ IF Encodable(withdrawAmount)
     THEN \E r \in TxOutcomes, h \in TxHashes :
            /\ calls' = Count(calls, "burn")
            /\ burnCall' = BurnArgs(withdrawAmount)
            /\ pc' = "burned"
            /\ IF r.ok
               THEN /\ confirmed' = Count(confirmed, "burn")
                    /\ burnTx' = Str(h)
                    /\ shown' = shown \cup {h}
                    /\ out' = out \cup {"burn"}
                    /\ UNCHANGED <<error, exitCode>>
               ELSE /\ error' = ChainError(r.msg)
                    /\ out' = out \cup {"burn failed"}
                    /\ UNCHANGED <<confirmed, burnTx, shown, exitCode>>
     ELSE /\ error' = EncodeError
          /\ out' = out \cup {"burn failed"}
          /\ pc' = "exited"
          /\ exitCode' = "0"
          /\ UNCHANGED <<calls, confirmed, burnCall, burnTx, shown>>
  /\ UNCHANGED <<inputs, code, bal, withdrawAmount, pollLocals, requested, startExitArg, startExitError, processExitsArg,
                 amountWei>>

withdrawPOL_burn ==
  /\ pc = "burn"
  /\ IF Encodable(withdrawAmount)
     THEN \E r \in TxOutcomes, h \in TxHashes :
            /\ calls' = Count(calls, "burn")
            /\ burnCall' = BurnArgs(withdrawAmount)
            /\ IF r.ok
               THEN /\ confirmed' = Count(confirmed, "burn")
                    /\ burnTx' = Str(h)
                    /\ shown' = shown \cup {h}
                    /\ out' = out \cup {"burn"}
                    /\ pc' = "burned"
                    /\ UNCHANGED <<error, exitCode>>
               ELSE /\ error' = ChainError(r.msg)
                    /\ out' = out \cup {"burn failed"}
                    /\ pc' = "exited"
                    /\ exitCode' = "0"
                    /\ UNCHANGED <<confirmed, burnTx, shown>>
     ELSE /\ error' = EncodeError
          /\ out' = out \cup {"burn failed"}
          /\ pc' = "exited"
          /\ exitCode' = "0"
          /\ UNCHANGED <<calls, confirmed, burnCall, burnTx, shown>>
  /\ UNCHANGED <<inputs, code, bal, withdrawAmount, pollLocals, requested, startExitArg, startExitError, processExitsArg,
                 amountWei>>

\* the continuation polling whatever the flag says
withdrawPOL_continue_AlwaysPolls ==
  /\ pc = "burned"
  /\ txHash' = burnTx
  /\ out' = out \cup {"next steps", "auto-completion"}
  /\ pc' = "poll"
  /\ UNCHANGED <<inputs, wdLocals, attempts, response, got200, proofData, external,
                 amountWei, error, shown, exitCode>>

\* Step 5: automatic continuation or manual handoff
withdrawPOL_continue ==
  /\ pc = "burned"
  /\ IF autoComplete
     THEN /\ txHash' = burnTx
          /\ out' = out \cup {"next steps", "auto-completion"}
          /\ pc' = "poll"
          /\ UNCHANGED exitCode
     ELSE /\ out' = out \cup {"next steps", "manual"}
          /\ pc' = "exited"
          /\ exitCode' = "0"
          /\ UNCHANGED txHash
  /\ UNCHANGED <<inputs, wdLocals, attempts, response, got200, proofData, external,
                 amountWei, error, shown>>

----------------------------------------------------------------------------
(* waitForCheckpoint: the poll loop *)

\* where an exception leaving waitForCheckpoint or processExit is handled:
\* withdrawPOL has no handler of its own, completeExit catches it
CallerCatch == IF mode = "withdraw" THEN "mainCatch" ELSE "completeExitCatch"

\* the loop running one iteration too many
LoopGuard_Inclusive(a) == a <= maxAttempts

\* the loop running one iteration too few
LoopGuard_Short(a) == a + 1 < maxAttempts

\* while (attempts < maxAttempts)
LoopGuard(a) == a < maxAttempts

\* fetch(proofUrl): one request, answered or failed
\* a request made for a transaction hash kept from elsewhere
proofUrl_Stale(h) ==
  <<"h", "t", "t", "p", "s", ":", "/", "/", "proof-generator", "/", "exit-payload", "/">>
    \o HashA
    \o <<"?", "eventSignature", "=", "0xebff">>

\* the URL of the proof service for a burn transaction hash
proofUrl(h) ==
  <<"h", "t", "t", "p", "s", ":", "/", "/", "proof-generator", "/", "exit-payload", "/">>
    \o (IF h.given THEN h.text ELSE <<"undefined">>)
    \o <<"?", "eventSignature", "=", "0xebff">>

waitForCheckpoint_fetch ==
  /\ pc = "poll"
  /\ LoopGuard(attempts)
  /\ \E r \in Responses :
       /\ response' = r
       /\ got200' = (got200 \/ (r.kind = "http" /\ r.status = 200))
  /\ calls' = Count(calls, "fetch")
  /\ requested' = requested \cup {proofUrl(txHash)}
  /\ pc' = "polled"
  /\ UNCHANGED <<inputs, wdLocals, txHash, attempts, proofData, confirmed, startExitArg, startExitError, processExitsArg,
                 amountWei, error, console, exitCode>>

\* the loop returning only a body that carries a result
Returns_NeedsResult(r) == Ok(r) /\ r.body.json /\ r.body.result.given

\* the request produced a value the loop returns: the response is ok and
\* response.json() reads its body
Returns(r) == Ok(r) /\ r.body.json

\* the loop giving up on a status that is neither ok nor 400
waitForCheckpoint_handle_AbortOnOther ==
  /\ pc = "polled"
  /\ IF Returns(response)
     THEN /\ proofData' = response.body
          /\ out' = out \cup {"checkpointed"}
          /\ pc' = "startExit"
          /\ UNCHANGED <<attempts, response, error>>
     ELSE IF response.kind = "http" /\ ~Ok(response) /\ response.status # 400
     THEN /\ error' = [kind |-> "api", msg |-> <<"unexpected", "status">>]
          /\ pc' = CallerCatch
          /\ UNCHANGED <<attempts, response, proofData, out>>
     ELSE /\ attempts' = attempts + 1
          /\ response' = NoResponse
          /\ pc' = "poll"
          /\ UNCHANGED <<proofData, out, error>>
  /\ UNCHANGED <<inputs, wdLocals, txHash, got200, external, amountWei, shown, exitCode>>

\* the rest of one iteration: return the data, or count the attempt and sleep
waitForCheckpoint_handle ==
  /\ pc = "polled"
  /\ IF Returns(response)
     THEN /\ proofData' = response.body
          /\ out' = out \cup {"checkpointed"}
          /\ pc' = "startExit"
          /\ UNCHANGED <<attempts, response>>
     ELSE /\ attempts' = attempts + 1
          /\ response' = NoResponse
          /\ pc' = "poll"
          /\ UNCHANGED <<proofData, out>>
  /\ UNCHANGED <<inputs, wdLocals, txHash, got200, external, amountWei, error, shown,
                 exitCode>>

\* throw new Error('Checkpoint timeout ...')
waitForCheckpoint_timeout ==
  /\ pc = "poll"
  /\ ~LoopGuard(attempts)
  /\ error' = TimeoutError
  /\ pc' = CallerCatch
  /\ UNCHANGED <<inputs, wdLocals, pollLocals, external, amountWei, console, exitCode>>

----------------------------------------------------------------------------
(* processExit: start the exit, then process it *)

\* Step 1: startExitWithBurntTokens(proofData.result); the inner handler lets
\* a failure with the KNOWN_EXIT marker pass and throws any other again
\* a payload cut short on its way to the predicate
StartExitPayload_Truncated(p) ==
  [given |-> p.result.given, text |-> SubSeq(p.result.text, 1, Len(p.result.text) - 1)]

\* the argument of startExitWithBurntTokens: proofData.result
StartExitPayload(p) == p.result

processExit_startExit ==
  /\ pc = "startExit"
  /\ IF proofData.result.given
     THEN \E r \in TxOutcomes :
            /\ calls' = Count(calls, "startExit")
            /\ startExitArg' = StartExitPayload(proofData)
            /\ CASE r.ok ->
                      /\ confirmed' = Count(confirmed, "startExit")
                      /\ out' = out \cup {"start exit"}
                      /\ pc' = "processExits"
                      /\ UNCHANGED <<error, startExitError>>
                 [] ~r.ok /\ IncludesKnownExit(r.msg) ->
                      /\ startExitError' = ChainError(r.msg)
                      /\ out' = out \cup {"exit already started"}
                      /\ pc' = "processExits"
                      /\ UNCHANGED <<confirmed, error>>
                 [] OTHER ->
                      /\ startExitError' = ChainError(r.msg)
                      /\ error' = ChainError(r.msg)
                      /\ pc' = "processExitCatch"
                      /\ UNCHANGED <<confirmed, out>>
     ELSE /\ startExitError' = EncodeError
          /\ error' = EncodeError
          /\ pc' = "processExitCatch"
          /\ UNCHANGED <<calls, confirmed, startExitArg, out>>
  /\ UNCHANGED <<inputs, wdLocals, pollLocals, requested, processExitsArg, amountWei,
                 shown, exitCode>>

\* Step 2: processExits(POL_SEPOLIA)
processExit_processExits ==
  /\ pc = "processExits"
  /\ \E r \in TxOutcomes :
       /\ calls' = Count(calls, "processExits")
       /\ processExitsArg' = "POL_SEPOLIA"
       /\ IF r.ok
          THEN /\ confirmed' = Count(confirmed, "processExits")
               /\ out' = out \cup {"released"}
               /\ pc' = "processExitReturned"
               /\ UNCHANGED error
          ELSE /\ error' = ChainError(r.msg)
               /\ pc' = "processExitCatch"
               /\ UNCHANGED <<confirmed, out>>
  /\ UNCHANGED <<inputs, wdLocals, pollLocals, requested, startExitArg, startExitError,
                 amountWei, shown, exitCode>>

\* the outer handler: a KNOWN_EXIT message leads to one more processExits
\* the outer handler reporting the failure and returning normally
processExit_catch_Swallows ==
  /\ pc = "processExitCatch"
  /\ out' = out \cup {"exit processing failed"}
  /\ pc' = "processExitReturned"
  /\ UNCHANGED <<inputs, wdLocals, pollLocals, external, amountWei, error, shown, exitCode>>

processExit_catch ==
  /\ pc = "processExitCatch"
  /\ out' = out \cup {"exit processing failed"}
  /\ pc' = IF IncludesKnownExit(error.msg) THEN "finalizeNow" ELSE "processExitThrow"
  /\ UNCHANGED <<inputs, wdLocals, pollLocals, external, amountWei, error, shown, exitCode>>

\* inside the handler: processExits(POL_SEPOLIA) once more
\* the error of the second processExits replacing the original one
processExit_finalizeNow_ThrowsFinalizeError ==
  /\ pc = "finalizeNow"
  /\ \E r \in TxOutcomes :
       /\ calls' = Count(calls, "processExits")
       /\ processExitsArg' = "POL_SEPOLIA"
       /\ IF r.ok
          THEN /\ confirmed' = Count(confirmed, "processExits")
               /\ out' = out \cup {"released"}
               /\ pc' = "processExitReturned"
               /\ UNCHANGED error
          ELSE /\ out' = out \cup {"could not finalize"}
               /\ error' = ChainError(r.msg)
               /\ pc' = "processExitThrow"
               /\ UNCHANGED confirmed
  /\ UNCHANGED <<inputs, wdLocals, pollLocals, requested, startExitArg, startExitError,
                 amountWei, shown, exitCode>>

processExit_finalizeNow ==
  /\ pc = "finalizeNow"
  /\ \E r \in TxOutcomes :
       /\ calls' = Count(calls, "processExits")
       /\ processExitsArg' = "POL_SEPOLIA"
       /\ IF r.ok
          THEN /\ confirmed' = Count(confirmed, "processExits")
               /\ out' = out \cup {"released"}
               /\ pc' = "processExitReturned"
          ELSE /\ out' = out \cup {"could not finalize"}
               /\ pc' = "processExitThrow"
               /\ UNCHANGED confirmed
  /\ UNCHANGED <<inputs, wdLocals, pollLocals, requested, startExitArg, startExitError,
                 amountWei, error, shown, exitCode>>

\* the handler throwing again without printing the proof
processExit_throw_NoProof ==
  /\ pc = "processExitThrow"
  /\ pc' = CallerCatch
  /\ UNCHANGED <<inputs, wdLocals, pollLocals, external, amountWei, error, console,
                 exitCode>>

\* the end of the handler: the proof is printed and the error thrown again
processExit_throw ==
  /\ pc = "processExitThrow"
  /\ out' = out \cup {"proof data"}
  /\ shown' = IF proofData.result.given THEN shown \cup {proofData.result.text} ELSE shown
  /\ pc' = CallerCatch
  /\ UNCHANGED <<inputs, wdLocals, pollLocals, external, amountWei, error, exitCode>>

\* the withdraw ending without its completion message
withdrawPOL_completed_Silent ==
  /\ pc = "processExitReturned"
  /\ mode = "withdraw"
  /\ pc' = "exited"
  /\ exitCode' = "0"
  /\ UNCHANGED <<inputs, wdLocals, pollLocals, external, amountWei, error, console>>

\* withdrawPOL after processExit returned
withdrawPOL_completed ==
  /\ pc = "processExitReturned"
  /\ mode = "withdraw"
  /\ out' = out \cup {"withdrawal completed"}
  /\ pc' = "exited"
  /\ exitCode' = "0"
  /\ UNCHANGED <<inputs, wdLocals, pollLocals, external, amountWei, error, shown>>

----------------------------------------------------------------------------
(* check: checkStatus *)

checkStatus_args ==
  /\ pc = "checkStatus"
  /\ IF Truthy(arg)
     THEN /\ txHash' = arg
          /\ shown' = shown \cup {arg.text}
          /\ pc' = "checkFetch"
          /\ UNCHANGED <<out, exitCode>>
     ELSE /\ out' = out \cup {"usage"}
          /\ pc' = "exited"
          /\ exitCode' = "0"
          /\ UNCHANGED <<txHash, shown>>
  /\ UNCHANGED <<inputs, wdLocals, attempts, response, got200, proofData, external,
                 amountWei, error>>

\* message checkStatus prints for a response
StatusMessage(r) ==
  CASE r.kind = "neterr" -> "check error"
    [] Ok(r) /\ r.body.json -> "is checkpointed"
    [] Ok(r) /\ ~r.body.json -> "check error"
    [] r.status = 400 \/ r.status = 404 -> "not yet checkpointed"
    [] OTHER -> "api status"

\* the request made outside the try block: a network failure rejects main()
checkStatus_fetch_Unguarded ==
  /\ pc = "checkFetch"
  /\ \E r \in Responses :
       /\ response' = r
       /\ got200' = (got200 \/ (r.kind = "http" /\ r.status = 200))
       /\ IF r.kind = "neterr"
          THEN /\ error' = RpcError
               /\ pc' = "mainCatch"
               /\ UNCHANGED <<out, exitCode>>
          ELSE /\ out' = out \cup {StatusMessage(r)}
               /\ pc' = "exited"
               /\ exitCode' = "0"
               /\ UNCHANGED error
  /\ calls' = Count(calls, "fetch")
  /\ requested' = requested \cup {proofUrl(txHash)}
  /\ UNCHANGED <<inputs, wdLocals, txHash, attempts, proofData, confirmed, startExitArg, startExitError, processExitsArg,
                 amountWei, shown>>

checkStatus_fetch ==
  /\ pc = "checkFetch"
  /\ \E r \in Responses :
       /\ response' = r
       /\ got200' = (got200 \/ (r.kind = "http" /\ r.status = 200))
       /\ out' = out \cup {StatusMessage(r)}
  /\ calls' = Count(calls, "fetch")
  /\ requested' = requested \cup {proofUrl(txHash)}
  /\ pc' = "exited"
  /\ exitCode' = "0"
  /\ UNCHANGED <<inputs, wdLocals, txHash, attempts, proofData, confirmed, startExitArg, startExitError, processExitsArg,
                 amountWei, error, shown>>

----------------------------------------------------------------------------
(* exit: completeExit *)

completeExit_args ==
  /\ pc = "completeExit"
  /\ IF Truthy(arg)
     THEN /\ txHash' = arg
          /\ shown' = shown \cup {arg.text}
          /\ pc' = "poll"
          /\ UNCHANGED <<out, exitCode>>
     ELSE /\ out' = out \cup {"usage"}
          /\ pc' = "exited"
          /\ exitCode' = "0"
          /\ UNCHANGED <<txHash, shown>>
  /\ UNCHANGED <<inputs, wdLocals, attempts, response, got200, proofData, external,
                 amountWei, error>>

completeExit_completed ==
  /\ pc = "processExitReturned"
  /\ mode = "exit"
  /\ out' = out \cup {"exit completed"}
  /\ pc' = "exited"
  /\ exitCode' = "0"
  /\ UNCHANGED <<inputs, wdLocals, pollLocals, external, amountWei, error, shown>>

\* the handler of completeExit throwing the error on to main
completeExit_catch_Rethrows ==
  /\ pc = "completeExitCatch"
  /\ pc' = "mainCatch"
  /\ UNCHANGED <<inputs, wdLocals, pollLocals, external, amountWei, error, console,
                 exitCode>>

completeExit_catch ==
  /\ pc = "completeExitCatch"
  /\ out' = out \cup {"exit completion failed"}
  /\ pc' = "exited"
  /\ exitCode' = "0"
  /\ UNCHANGED <<inputs, wdLocals, pollLocals, external, amountWei, error, shown>>

----------------------------------------------------------------------------
(* finalize: finalizeExit *)

\* finalize starting the exit before it processes exits
finalizeExit_StartsExit ==
  /\ pc = "finalizeExit"
  /\ \E r \in TxOutcomes :
       /\ calls' = Count(Count(calls, "startExit"), "processExits")
       /\ processExitsArg' = "POL_SEPOLIA"
       /\ IF r.ok
          THEN /\ confirmed' = Count(confirmed, "processExits")
               /\ out' = out \cup {"all released"}
               /\ UNCHANGED error
          ELSE /\ error' = ChainError(r.msg)
               /\ out' = out \cup {"finalization failed"}
               /\ UNCHANGED confirmed
  /\ pc' = "exited"
  /\ exitCode' = "0"
  /\ UNCHANGED <<inputs, wdLocals, pollLocals, requested, startExitArg, startExitError,
                 amountWei, shown>>

finalizeExit ==
  /\ pc = "finalizeExit"
  /\ \E r \in TxOutcomes :
       /\ calls' = Count(calls, "processExits")
       /\ processExitsArg' = "POL_SEPOLIA"
       /\ IF r.ok
          THEN /\ confirmed' = Count(confirmed, "processExits")
               /\ out' = out \cup {"all released"}
               /\ UNCHANGED error
          ELSE /\ error' = ChainError(r.msg)
               /\ out' = out \cup {"finalization failed"}
               /\ UNCHANGED confirmed
  /\ pc' = "exited"
  /\ exitCode' = "0"
  /\ UNCHANGED <<inputs, wdLocals, pollLocals, requested, startExitArg, startExitError,
                 amountWei, shown>>

----------------------------------------------------------------------------

Next ==
  \/ Startup
  \/ main
  \/ mainCatch
  \/ bridgePOL_amount
  \/ bridgePOL_approve
  \/ bridgePOL_deposit
  \/ withdrawPOL_getCode
  \/ withdrawPOL_balanceOf
  \/ withdrawPOL_amount
  \/ withdrawPOL_burn
  \/ withdrawPOL_continue
  \/ withdrawPOL_completed
  \/ waitForCheckpoint_fetch
  \/ waitForCheckpoint_handle
  \/ waitForCheckpoint_timeout
  \/ processExit_startExit
  \/ processExit_processExits
  \/ processExit_catch
  \/ processExit_finalizeNow
  \/ processExit_throw
  \/ checkStatus_args
  \/ checkStatus_fetch
  \/ completeExit_args
  \/ completeExit_completed
  \/ completeExit_catch
  \/ finalizeExit

Spec == Init /\ [][Next]_vars

\* the single thread of control always takes its next step: every awaited call
\* settles, the sleep of the poll loop ends
FairSpec == Spec /\ WF_vars(Next)

----------------------------------------------------------------------------
(* Properties *)

NoChainTransaction ==
  /\ calls["approve"] = 0
  /\ calls["deposit"] = 0
  /\ calls["burn"] = 0
  /\ calls["startExit"] = 0
  /\ calls["processExits"] = 0

\* withdrawPOL has parsed the amount and compared it with the balance
AmountChecked == mode = "withdraw" /\ "withdrawing" \in out

\* C1: in withdraw, when the requested amount is greater than the queried
\* balance, the run ends having reported insufficient balance, with no chain
\* transaction submitted and no request sent to the proof service.
Thm_C1_InsufficientBalance ==
  (AmountChecked /\ withdrawAmount > bal)
    => /\ "insufficient balance" \in out
       /\ pc = "exited"
       /\ exitCode = "0"
       /\ NoChainTransaction
       /\ ~burnCall.made
       /\ calls["fetch"] = 0

Wit_C1_InsufficientBalance ==
  /\ AmountChecked
  /\ arg = Str(<<"1">>)
  /\ bal = 0
  /\ withdrawAmount = Unit
  /\ "insufficient balance" \in out
  /\ pc = "exited"

\* C2: in withdraw, for an amount A with 0 < A <= balance the burn call is
\* issued (it is the step that follows the check), and its argument and its
\* value both equal A in smallest units.
Thm_C2_BurnArguments ==
  (AmountChecked /\ withdrawAmount > 0 /\ withdrawAmount <= bal)
    => /\ withdrawAmount = parseEther(AmountText(arg))
       /\ \/ (pc = "burn" /\ ENABLED withdrawPOL_burn /\ calls["burn"] = 0)
          \/ /\ calls["burn"] = 1
             /\ burnCall.made
             /\ burnCall.arg = withdrawAmount
             /\ burnCall.value = withdrawAmount

Wit_C2_BurnArguments ==
  /\ AmountChecked
  /\ arg = Str(<<"0", ".", "5">>)
  /\ bal = Unit
  /\ burnCall.made
  /\ burnCall.arg * 2 = Unit
  /\ burnCall.value * 2 = Unit
  /\ confirmed["burn"] = 1

\* C3: whatever the proof service answers, one call of waitForCheckpoint
\* sends at most 360 requests (a run calls waitForCheckpoint at most once).
Thm_C3_AtMost360Requests == calls["fetch"] <= maxAttempts

Wit_C3_AtMost360Requests ==
  /\ mode = "exit"
  /\ calls["fetch"] = maxAttempts
  /\ attempts = maxAttempts
  /\ error = TimeoutError

\* the run is one that polls: withdraw and exit call waitForCheckpoint
Polls == mode \in {"withdraw", "exit"}

\* the response in hand is not a success: a failed request or an error status
NotSuccess(r) == r.kind = "neterr" \/ (r.kind = "http" /\ r.status \notin 200..299)

Thm_C5_ErrorsAreRetried ==
  [][ /\ (Polls /\ pc = "polled" /\ NotSuccess(response))
          => (pc' = "poll" /\ attempts' = attempts + 1 /\ error' = error)
      /\ (pc = "poll" /\ attempts < maxAttempts)
          => (pc' = "polled" /\ calls'["fetch"] = calls["fetch"] + 1)
      /\ (pc \in {"poll", "polled"} /\ pc' \in {"mainCatch", "completeExitCatch"})
          => (attempts = maxAttempts /\ calls["fetch"] = maxAttempts) ]_vars

Wit_C5_ErrorsAreRetried ==
  /\ Polls
  /\ pc = "polled"
  /\ response.kind = "http"
  /\ response.status = 500
  /\ attempts = 3
  /\ calls["fetch"] = 4

\* waitForCheckpoint has ended, by a return or by an exception
LoopEnded == Polls /\ calls["fetch"] > 0 /\ pc \notin {"poll", "polled"}

\* C6 as stated: when no attempt receives a 200 response, the loop ends after
\* exactly 360 requests with the checkpoint timeout.
CE_C6_No200MeansTimeout ==
  (LoopEnded /\ ~got200)
    => (error = TimeoutError /\ calls["fetch"] = maxAttempts)

\* C6, amended: when no attempt receives a success response (status 200-299)
\* with a body that reads as JSON, the loop ends after exactly 360 requests
\* with the checkpoint timeout, which is no other error; and the timeout is
\* raised in no other case.
Thm_C6_NoProofMeansTimeout ==
  /\ (LoopEnded /\ ~proofData.json)
       => (error = TimeoutError /\ calls["fetch"] = maxAttempts /\ attempts = maxAttempts)
  /\ error.kind = "timeout"
       => (~proofData.json /\ calls["fetch"] = maxAttempts /\ calls["startExit"] = 0)

Wit_C6_NoProofMeansTimeout ==
  /\ LoopEnded
  /\ mode = "withdraw"
  /\ ~proofData.json
  /\ got200
  /\ error = TimeoutError
  /\ pc = "exited"
  /\ exitCode = "1"

\* C7 as stated: only a response with status 200 ends the loop successfully.
CE_C7_Only200Succeeds ==
  (Polls /\ proofData.json) => (response.kind = "http" /\ response.status = 200)

\* C7, amended: only a success response (status 200-299) whose body reads as
\* JSON ends the loop successfully, and the value returned is that body; a
\* response with a status outside 200-299 is transient and returns no proof.
Thm_C7_OnlySuccessStatusReturns ==
  /\ (Polls /\ proofData.json)
       => (response.kind = "http" /\ response.status \in 200..299
             /\ proofData = response.body)
  /\ (Polls /\ pc = "polled" /\ NotSuccess(response)) => ~proofData.json

Wit_C7_OnlySuccessStatusReturns ==
  /\ Polls
  /\ pc = "startExit"
  /\ response.status = 201
  /\ proofData = response.body
  /\ attempts = 1

\* the command reported that the exit is complete
ReportedSuccess ==
  \/ mode = "exit" /\ "exit completed" \in out
  \/ mode = "withdraw" /\ "withdrawal completed" \in out

\* the failure of the exit reached the caller of the command
ReportedFailure ==
  \/ mode = "exit" /\ "exit completion failed" \in out
  \/ mode = "withdraw" /\ exitCode = "1" /\ "error" \in out

\* C8: when start-exit fails with a message containing KNOWN_EXIT, the
\* failure is not propagated: processExits is the next call, and once a
\* processExits transaction is confirmed the command ends reporting success.
Thm_C8_KnownExitProceeds ==
  (Polls /\ startExitError.kind = "chain" /\ startExitError.msg = KnownExitMsg)
    => /\ \/ (pc = "processExits" /\ calls["processExits"] = 0 /\ error = NoError
                /\ ENABLED processExit_processExits)
          \/ calls["processExits"] >= 1
       /\ ((pc = "exited" /\ confirmed["processExits"] >= 1)
            => (ReportedSuccess /\ exitCode = "0"))

Wit_C8_KnownExitProceeds ==
  /\ mode = "exit"
  /\ startExitError = ChainError(KnownExitMsg)
  /\ calls["startExit"] = 1
  /\ confirmed["startExit"] = 0
  /\ confirmed["processExits"] = 1
  /\ pc = "exited"
  /\ "exit completed" \in out

\* C9: when start-exit fails with a message that does not contain KNOWN_EXIT,
\* the failure is propagated to the caller and processExits is never called
\* in that run.
Thm_C9_OtherStartExitFailureIsFatal ==
  (Polls /\ startExitError.kind # None /\ startExitError.msg # KnownExitMsg)
    => /\ calls["processExits"] = 0
       /\ processExitsArg = None
       /\ error = startExitError
       /\ pc \in {"processExitCatch", "processExitThrow", "mainCatch",
                  "completeExitCatch", "exited"}
       /\ ~ReportedSuccess
       /\ (pc = "exited" => ReportedFailure)

Wit_C9_OtherStartExitFailureIsFatal ==
  /\ mode = "withdraw"
  /\ startExitError = ChainError(RevertMsg)
  /\ calls["startExit"] = 1
  /\ calls["processExits"] = 0
  /\ pc = "exited"
  /\ exitCode = "1"

\* C10: finalize makes exactly one contract call, processExits for the fixed
\* token address, whether it succeeds or fails, and makes no start-exit call,
\* no burn and no request to the proof service.
Thm_C10_FinalizeOnlyProcessesExits ==
  mode = "finalize"
    => /\ calls["startExit"] = 0
       /\ calls["burn"] = 0
       /\ calls["approve"] = 0
       /\ calls["deposit"] = 0
       /\ calls["fetch"] = 0
       /\ calls["processExits"] <= 1
       /\ (pc = "finalizeExit" => ENABLED finalizeExit)
       /\ ((pc = "exited" /\ cfg = "ok")
            => (calls["processExits"] = 1 /\ processExitsArg = "POL_SEPOLIA"
                  /\ exitCode = "0"))

Wit_C10_FinalizeOnlyProcessesExits ==
  /\ mode = "finalize"
  /\ pc = "exited"
  /\ calls["processExits"] = 1
  /\ confirmed["processExits"] = 0
  /\ "finalization failed" \in out

\* C11: with automatic continuation disabled, a withdraw whose burn is
\* confirmed halts in the manual handoff: the burn transaction identifier is
\* on the console, and the run ends with no request to the proof service and
\* no start-exit or processExits call.
Thm_C11_ManualHandoff ==
  (mode = "withdraw" /\ ~autoComplete /\ confirmed["burn"] = 1)
    => /\ burnTx.given
       /\ burnTx.text \in shown
       /\ calls["fetch"] = 0
       /\ requested = {}
       /\ calls["startExit"] = 0
       /\ calls["processExits"] = 0
       /\ pc \in {"burned", "exited"}
       /\ (pc = "exited" => ("manual" \in out /\ exitCode = "0"))

Wit_C11_ManualHandoff ==
  /\ mode = "withdraw"
  /\ ~autoComplete
  /\ confirmed["burn"] = 1
  /\ burnTx = Str(HashB)
  /\ pc = "exited"
  /\ "manual" \in out

\* the steps of a withdraw happen in the order burn, poll, start-exit,
\* processExits
WithdrawOrder ==
  /\ calls["fetch"] > 0 => confirmed["burn"] = 1
  /\ calls["startExit"] > 0 => (calls["fetch"] > 0 /\ proofData.json)
  /\ calls["processExits"] > 0 => calls["startExit"] = 1

\* the withdraw of the scenario: automatic continuation, burn confirmed, a
\* request answered 200, start-exit confirmed, processExits confirmed
WithdrawAllSucceeded ==
  /\ mode = "withdraw"
  /\ autoComplete
  /\ confirmed["burn"] = 1
  /\ got200
  /\ confirmed["startExit"] = 1
  /\ confirmed["processExits"] >= 1

\* C12: with automatic continuation enabled, when the burn is confirmed, the
\* proof service answers 200 on one of the attempts, start-exit succeeds and
\* processExits succeeds, the withdraw eventually ends reporting completion,
\* and its steps were taken in the order burn, poll, start-exit, processExits.
Thm_C12_AutomaticWithdrawCompletes ==
  /\ [](mode = "withdraw" => WithdrawOrder)
  /\ (mode = "withdraw" /\ cfg = "ok") ~> (pc = "exited")
  /\ []((WithdrawAllSucceeded /\ pc = "exited")
          => ("withdrawal completed" \in out /\ exitCode = "0"))

Wit_C12_AutomaticWithdrawCompletes ==
  /\ WithdrawAllSucceeded
  /\ attempts = 2
  /\ calls["fetch"] = 3
  /\ calls["processExits"] = 1
  /\ pc = "exited"
  /\ "withdrawal completed" \in out

\* the operations that submit a chain transaction
ChainOps == {"approve", "deposit", "burn", "startExit", "processExits"}

\* C13: no chain transaction is retried: within one run each of approve,
\* deposit, burn, start-exit and processExits is submitted at most once, also
\* after it failed.
CE_C13_NoTransactionTwice == \A op \in ChainOps : calls[op] <= 1

\* processExit was entered and has thrown: the exception is at the caller's
\* handler, or the run ended without the completion message
ProcessExitFailed ==
  /\ Polls
  /\ proofData.json
  /\ \/ pc \in {"mainCatch", "completeExitCatch"}
     \/ (pc = "exited" /\ ~ReportedSuccess)

\* C14: on every path on which processExit ends in failure, whether
\* start-exit or processExits failed, the proof payload it was given has been
\* printed before the failure reaches the caller.
Thm_C14_ProofShownOnFailure ==
  ProcessExitFailed
    => /\ "proof data" \in out
       /\ (proofData.result.given => proofData.result.text \in shown)
       /\ error.kind \in {"chain", "encode"}

Wit_C14_ProofShownOnFailure ==
  /\ mode = "exit"
  /\ pc = "completeExitCatch"
  /\ proofData.result = Str(<<"0", "x", "p", "2">>)
  /\ confirmed["startExit"] = 1
  /\ calls["processExits"] = 1
  /\ error = ChainError(RevertMsg)
  /\ <<"0", "x", "p", "2">> \in shown

\* C15: a withdrawal amount must be strictly positive: for a requested amount
\* of zero or less the withdraw issues no burn transaction.
CE_C15_NoBurnOfZero ==
  (AmountChecked /\ withdrawAmount <= 0) => (calls["burn"] = 0 /\ ~burnCall.made)

\* C16: in deposit, the deposit call is submitted only after the approval was
\* confirmed; when the approval fails no deposit call is submitted, nothing is
\* retried, and the run ends with the error reported and exit status 1.
Thm_C16_DepositAfterApproval ==
  mode = "deposit"
    => /\ calls["approve"] <= 1
       /\ calls["deposit"] <= 1
       /\ (pc = "deposit" => confirmed["approve"] = 1)
       /\ (calls["deposit"] > 0 => confirmed["approve"] = 1)
       /\ ((calls["approve"] = 1 /\ confirmed["approve"] = 0)
             => /\ calls["deposit"] = 0
                /\ error.kind = "chain"
                /\ pc \in {"mainCatch", "exited"}
                /\ (pc = "exited" => (exitCode = "1" /\ "error" \in out)))

Wit_C16_DepositAfterApproval ==
  /\ mode = "deposit"
  /\ calls["approve"] = 1
  /\ confirmed["approve"] = 0
  /\ calls["deposit"] = 0
  /\ error = ChainError(RevertMsg)
  /\ pc = "exited"
  /\ exitCode = "1"

\* a chain transaction failed with a message without the KNOWN_EXIT marker
\* and the run has ended
EndedAfterChainFailure ==
  /\ pc = "exited"
  /\ error.kind = "chain"
  /\ \A i \in 1..Len(error.msg) : error.msg[i] # "KNOWN_EXIT"

ExitPayloadUrl(id) ==
  <<"h", "t", "t", "p", "s", ":", "/", "/", "proof-generator", "/", "exit-payload", "/">>
    \o id \o <<"?", "eventSignature", "=", "0xebff">>

\* C18: the request check and exit send depends only on the supplied
\* transaction identifier: whatever the number of earlier unsuccessful
\* requests, every request goes to the exit payload address of that
\* identifier, and the proof exit obtains is the body the service answered.
Thm_C18_LookupByIdentifier ==
  mode \in {"check", "exit"}
    => /\ requested \subseteq {ExitPayloadUrl(arg.text)}
       /\ (calls["fetch"] > 0 => (arg.given /\ requested = {ExitPayloadUrl(arg.text)}))
       /\ (proofData.json => proofData = response.body)
       /\ (calls["startExit"] > 0 => startExitArg = response.body.result)

Wit_C18_LookupByIdentifier ==
  /\ mode = "exit"
  /\ arg = Str(HashB)
  /\ attempts = 2
  /\ calls["fetch"] = 3
  /\ requested = {ExitPayloadUrl(HashB)}
  /\ proofData.result = Str(<<"0", "x", "p", "2">>)
  /\ pc = "startExit"

\* C19: when PRIVATE_KEY or POL_AMOY is missing, every command exits with
\* status 1 at startup, before any chain call or proof service request.
Thm_C19_MissingConfigIsFatal ==
  cfg # "ok"
    => /\ \A op \in DOMAIN calls : calls[op] = 0
       /\ requested = {}
       /\ pc \in {"start", "exited"}
       /\ (pc = "exited" => (exitCode = "1" /\ "config error" \in out))

Wit_C19_MissingConfigIsFatal ==
  /\ cfg = "noPolAmoy"
  /\ mode = "finalize"
  /\ pc = "exited"
  /\ exitCode = "1"
  /\ "config error" \in out

\* C20: check and exit invoked without a transaction hash print the usage
\* message and return normally, with no proof service request and no chain
\* transaction.
Thm_C20_MissingHashPrintsUsage ==
  (cfg = "ok" /\ mode \in {"check", "exit"} /\ (~arg.given \/ arg.text = <<>>))
    => /\ \A op \in DOMAIN calls : calls[op] = 0
       /\ requested = {}
       /\ pc \in {"start", "main", "checkStatus", "completeExit", "exited"}
       /\ (pc = "exited" => ("usage" \in out /\ exitCode = "0" /\ error = NoError))

Wit_C20_MissingHashPrintsUsage ==
  /\ cfg = "ok"
  /\ mode = "exit"
  /\ arg = Str(<<>>)
  /\ pc = "exited"
  /\ "usage" \in out
  /\ exitCode = "0"

\* C21: in withdraw, a proof service request, a startExit call and a
\* processExits call are made only after the burn of this run was confirmed,
\* every request is for the hash of that burn, and a failed burn ends the run
\* once it is reported.
Thm_C21_AnchoredOnConfirmedBurn ==
  mode = "withdraw"
    => /\ ((calls["fetch"] > 0 \/ calls["startExit"] > 0 \/ calls["processExits"] > 0
              \/ requested # {} \/ pc \in {"poll", "polled"})
             => (confirmed["burn"] = 1 /\ burnTx.given /\ txHash = burnTx))
       /\ requested \subseteq {ExitPayloadUrl(burnTx.text)}
       /\ ((calls["burn"] = 1 /\ confirmed["burn"] = 0)
             => /\ pc = "exited"
                /\ "burn failed" \in out
                /\ ~burnTx.given
                /\ calls["fetch"] = 0
                /\ calls["startExit"] = 0
                /\ calls["processExits"] = 0)

Wit_C21_AnchoredOnConfirmedBurn ==
  /\ mode = "withdraw"
  /\ autoComplete
  /\ confirmed["burn"] = 1
  /\ burnTx = Str(HashA)
  /\ requested = {ExitPayloadUrl(HashA)}
  /\ calls["fetch"] = 2
  /\ calls["startExit"] = 1
  /\ pc = "processExits"

\* C22: in withdraw and exit, startExit is submitted only after the proof
\* service answered the request for the transaction hash with a proof, the
\* payload submitted is that proof unchanged, and after a checkpoint timeout
\* neither startExit nor processExits is called.
Thm_C22_StartExitOnlyWithProof ==
  mode \in {"withdraw", "exit"}
    => /\ calls["startExit"] <= 1
       /\ (calls["startExit"] > 0
             => /\ response.kind = "http"
                /\ response.status \in 200..299
                /\ response.body.json
                /\ response.body.result.given
                /\ proofData = response.body
                /\ startExitArg = response.body.result
                /\ txHash.given
                /\ requested = {ExitPayloadUrl(txHash.text)})
       /\ (error.kind = "timeout"
             => /\ attempts = 360
                /\ proofData = NoData
                /\ calls["startExit"] = 0
                /\ calls["processExits"] = 0
                /\ pc \in {"mainCatch", "completeExitCatch", "exited"})

Wit_C22_StartExitOnlyWithProof ==
  /\ mode = "exit"
  /\ calls["startExit"] = 1
  /\ confirmed["startExit"] = 1
  /\ response.status = 200
  /\ startExitArg = Str(<<"0", "x", "p", "1">>)
  /\ proofData.result = Str(<<"0", "x", "p", "1">>)
  /\ attempts = 1
  /\ pc = "processExits"

\* startExit was confirmed, or failed with a message carrying the KNOWN_EXIT
\* marker
ExitStarted ==
  /\ calls["startExit"] = 1
  /\ \/ confirmed["startExit"] = 1
     \/ /\ startExitError.kind = "chain"
        /\ \E i \in 1..Len(startExitError.msg) : startExitError.msg[i] = "KNOWN_EXIT"

\* C23: in withdraw and exit, the completion message is printed only when a
\* processExits transaction was confirmed in this run, and processExits is
\* called only after a startExit that was confirmed or that failed with the
\* KNOWN_EXIT marker.
Thm_C23_SuccessOnlyWhenFinalized ==
  mode \in {"withdraw", "exit"}
    => /\ (("withdrawal completed" \in out \/ "exit completed" \in out)
             => (confirmed["processExits"] = 1 /\ "released" \in out /\ ExitStarted))
       /\ (calls["processExits"] > 0 => ExitStarted)

Wit_C23_SuccessOnlyWhenFinalized ==
  /\ mode = "exit"
  /\ "exit completed" \in out
  /\ confirmed["startExit"] = 0
  /\ startExitError = ChainError(KnownExitMsg)
  /\ calls["processExits"] = 2
  /\ confirmed["processExits"] = 1
  /\ pc = "exited"

\* the error processExit holds is a failed transaction whose message carries
\* the KNOWN_EXIT marker
HoldsKnownExitError ==
  /\ error.kind = "chain"
  /\ \E i \in 1..Len(error.msg) : error.msg[i] = "KNOWN_EXIT"

\* C24: processExit submits processExits at most twice, the second time only
\* after the first processExits failed with a message carrying the KNOWN_EXIT
\* marker; when the second one is confirmed processExit returns normally, and
\* when it fails the error of the first one is thrown.
Thm_C24_OneRetryOfProcessExits ==
  mode \in {"withdraw", "exit"}
    => /\ calls["processExits"] <= 2
       /\ (pc = "finalizeNow" => (calls["processExits"] = 1 /\ HoldsKnownExitError))
       /\ (calls["processExits"] = 2
             => (HoldsKnownExitError /\ "exit processing failed" \in out))
       /\ ((calls["processExits"] = 2 /\ confirmed["processExits"] = 1)
             => /\ pc \in {"processExitReturned", "exited"}
                /\ "released" \in out
                /\ "proof data" \notin out
                /\ (pc = "exited" => exitCode = "0"))
       /\ ((calls["processExits"] = 2 /\ confirmed["processExits"] = 0)
             => /\ pc \in {"processExitThrow", "mainCatch", "completeExitCatch", "exited"}
                /\ "could not finalize" \in out
                /\ (pc = "exited" =>
                      ("proof data" \in out
                         /\ exitCode = (IF mode = "withdraw" THEN "1" ELSE "0"))))

Wit_C24_OneRetryOfProcessExits ==
  /\ mode = "withdraw"
  /\ calls["processExits"] = 2
  /\ confirmed["processExits"] = 0
  /\ error = ChainError(KnownExitMsg)
  /\ "could not finalize" \in out
  /\ pc = "exited"
  /\ exitCode = "1"

\* C25: check makes one request to the proof service and never polls;
\* whatever the response (200, 400, 404, another status, a network failure)
\* it submits no chain transaction and returns normally.
Thm_C25_CheckIsOneReadOnlyRequest ==
  mode = "check"
    => /\ calls["fetch"] <= 1
       /\ attempts = 0
       /\ proofData = NoData
       /\ pc \in {"start", "main", "checkStatus", "checkFetch", "exited"}
       /\ \A op \in {"approve", "deposit", "burn", "startExit", "processExits"} :
            calls[op] = 0
       /\ error = NoError
       /\ ((pc = "exited" /\ cfg = "ok" /\ arg.given /\ arg.text # <<>>)
             => /\ calls["fetch"] = 1
                /\ response # NoResponse
                /\ exitCode = "0"
                /\ out \cap {"is checkpointed", "not yet checkpointed", "api status",
                             "check error"} # {})

Wit_C25_CheckIsOneReadOnlyRequest ==
  /\ mode = "check"
  /\ arg = Str(HashA)
  /\ response.kind = "neterr"
  /\ calls["fetch"] = 1
  /\ "check error" \in out
  /\ pc = "exited"
  /\ exitCode = "0"

\* C26: in withdraw, when getCode finds no contract code at POL_AMOY, the run
\* returns before the balance query, with no transaction submitted and no
\* proof service request, whatever the requested amount.
Thm_C26_NoContractStopsWithdraw ==
  (mode = "withdraw" /\ code = "0x")
    => /\ calls["getCode"] = 1
       /\ calls["balanceOf"] = 0
       /\ calls["fetch"] = 0
       /\ requested = {}
       /\ \A op \in {"approve", "deposit", "burn", "startExit", "processExits"} :
            calls[op] = 0
       /\ ~burnCall.made
       /\ withdrawAmount = 0
       /\ "no contract" \in out
       /\ pc = "exited"
       /\ exitCode = "0"

Wit_C26_NoContractStopsWithdraw ==
  /\ mode = "withdraw"
  /\ autoComplete
  /\ arg = Str(<<"0", ".", "5">>)
  /\ code = "0x"
  /\ calls["getCode"] = 1
  /\ calls["balanceOf"] = 0
  /\ pc = "exited"

====
